---------------------------- MODULE Spec2Model ----------------------------
(***************************************************************************)
(* A model of the MIP-search reductions of H2_ALSH:                        *)
(*   - H2_ALSH::bulkload / H2_ALSH::kmip   (src/h2_alsh.cc)                *)
(*   - SRP_LSH signatures / SRP_LSH::kmc   (src/srp_lsh.cc)                *)
(*   - L2_ALSH::kmip refinement            (src/l2_alsh.cc)                *)
(*                                                                         *)
(* Arithmetic.  The code computes in float; the model computes exactly.    *)
(* Coordinates are small integers, so inner products are integers.  A      *)
(* Euclidean norm is irrational in general: a non-negative real x is       *)
(* carried as its square (NormSq, MSq, nqSq), and every comparison the     *)
(* code makes between such values is made between the squares, which is    *)
(* the same comparison.  IEEE special values that the code can produce     *)
(* (NaN and +inf for b_) are modelled by their comparison behaviour.       *)
(* Rounding error is not modelled.                                         *)
(***************************************************************************)
EXTENDS Integers, Sequences, FiniteSets, TLC

\* ------------------------------------------------------------------ bounds
MaxN      == 4      \* largest dataset (n_pts_)
MaxTopK   == 2      \* largest top_k of a query
MaxBlocks == 5      \* cap on blocks_.size() for a bulkload that never ends
MaxPts    == 3      \* largest dataset of an SRP_LSH

\* ------------------------------------------------- constants of def.h
MAX_BLOCK_NUM == 3        \* block-size cap (scaled down)
N_THRESHOLD   == 2        \* linear-scan threshold (scaled down)
MINREAL       == -1000    \* stands for -FLT_MAX: below every inner product
CANDIDATES    == 2        \* oversampling margin of kmc (scaled down)
\* a Block's lsh_ before any QALSH is built for it
NULL == [built |-> FALSE, n |-> 0, dim |-> 0, start |-> 0]

\* ------------------------------------------------------------------ inputs
\* the vectors a dataset is drawn from (dim_ = 2)
Pool == { <<0, 0>>, <<1, 1>>, <<2, 0>> }
\* the query vectors (all of positive norm)
Queries == { <<1, 1>>, <<-1, -1>> }
\* (nn_ratio_, mip_ratio_) as fractions c0 = c0n/c0d, c = cn/cd
Ratios == { [c0n |-> 11, c0d |-> 10, cn |-> 1, cd |-> 10],   \* 0 < b < 1
            [c0n |-> 2,  c0d |-> 1,  cn |-> 1, cd |-> 1],    \* b = 1
            [c0n |-> 2,  c0d |-> 1,  cn |-> 2, cd |-> 1],    \* b > 1
            [c0n |-> 1,  c0d |-> 2,  cn |-> 1, cd |-> 32] }  \* b = NaN

VARIABLES
    \* H2_ALSH
    n_pts_, data_, ratio, pc, order, i, h2_alsh_data_, blocks_,
    \* H2_ALSH::kmip
    query, top_k, list, kip, bi, last, nullDeref

VARIABLES
    \* L2_ALSH::kmip
    cand, brk

l2vars == << cand, brk >>

VARIABLES
    \* SRP_LSH
    spc, ti, tlast, sn, K_, signs, hash_key_, signq, hash_key_q, stop_k,
    match, scand

srpvars == << spc, ti, tlast, sn, K_, signs, hash_key_, signq, hash_key_q,
              stop_k, match, scand >>

h2vars == << n_pts_, data_, ratio, pc, order, i, h2_alsh_data_, blocks_,
             query, top_k, list, kip, bi, last, nullDeref >>

vars == << h2vars, srpvars, l2vars >>

\* ----------------------------------------------------------------- helpers
RECURSIVE Dot(_, _)
Dot(p, q) == IF Len(p) = 0 THEN 0 ELSE Head(p) * Head(q) + Dot(Tail(p), Tail(q))

\* squared Euclidean norm; norm_d_[id][0] is its square root
NormSq(p) == Dot(p, p)

Pow4(x) == x * x * x * x
Abs(x) == IF x < 0 THEN -x ELSE x

\* c0^4 - 1 and c0^4 - c, both scaled by the positive number c0d^4 * cd
BNum(r) == (Pow4(r.c0n) - Pow4(r.c0d)) * r.cd
BDen(r) == Pow4(r.c0n) * r.cd - r.cn * Pow4(r.c0d)

\* b_ = sqrt(BNum/BDen) is NaN when the quotient is negative or 0/0
BIsNaN(r) == \/ (BNum(r) < 0 /\ BDen(r) >= 0)
             \/ (BNum(r) > 0 /\ BDen(r) < 0)
             \/ (BNum(r) = 0 /\ BDen(r) = 0)
BIsInf(r) == BNum(r) > 0 /\ BDen(r) = 0

\* norm_d < m, with m = M * b_  (h2_alsh.cc line 74 and 81)
BelowRange(ndSq, MSq, r) ==
    IF BIsNaN(r) THEN FALSE
    ELSE IF BIsInf(r) THEN MSq > 0
    ELSE ndSq * Abs(BDen(r)) < MSq * Abs(BNum(r))

\* n >= MAX_BLOCK_NUM  (line 78)
BlockFull(n) == n >= MAX_BLOCK_NUM

\* n > N_THRESHOLD  (line 104)
NeedsIndex(n) == n > N_THRESHOLD

\* a lift that subtracts the wrong way round
LiftSwapped(id, MSq) ==
    [ coords  |-> data_[id],
      extraSq |-> NormSq(data_[id]) - MSq ]

\* the lifted vector of one point (lines 84-88); the appended coordinate is
\* sqrt(M_sqr - norm_d * norm_d), carried as its radicand
Lift(id, MSq) ==
    [ coords  |-> data_[id],
      extraSq |-> MSq - NormSq(data_[id]) ]

\* an index copy that forgets where the block starts
BlockIndexFromZero(start, n) == [j \in 0 .. n - 1 |-> order[j]]

\* index[j] = tmp[j].id_ with tmp = &order[i - n]  (lines 97-102)
BlockIndex(start, n) == [j \in 0 .. n - 1 |-> order[start + j]]

\* the inner while loop (lines 77-91): how many points the block absorbs
RECURSIVE Absorb(_, _, _)
Absorb(k, n, MSq) ==
    IF k >= n_pts_ THEN n
    ELSE IF BlockFull(n) THEN n
    ELSE IF BelowRange(NormSq(data_[order[k]]), MSq, ratio) THEN n
    ELSE Absorb(k + 1, n + 1, MSq)

\* a comparator that sorts the other way
SortedAsc(o) ==
    \A a, b \in 0 .. n_pts_ - 1 :
        a < b => NormSq(data_[o[a]]) <= NormSq(data_[o[b]])

\* qsort(order, n_pts_, sizeof(Result), ResultCompDesc): some arrangement of
\* the ids in non-increasing key order (qsort is not stable)
SortedDesc(o) ==
    \A a, b \in 0 .. n_pts_ - 1 :
        a < b => NormSq(data_[o[a]]) >= NormSq(data_[o[b]])

Orders == { o \in Permutations(0 .. n_pts_ - 1) : SortedDesc(o) }

\* no L2_ALSH::kmip is running
L2Idle ==
    /\ cand = << >>
    /\ brk = 0

\* no SRP_LSH exists
SrpIdle ==
    /\ spc = "none"
    /\ ti = 0
    /\ tlast = << >>
    /\ sn = 0
    /\ K_ = 0
    /\ signs = << >>
    /\ hash_key_ = << >>
    /\ signq = << >>
    /\ hash_key_q = << >>
    /\ stop_k = 0
    /\ match = << >>
    /\ scand = << >>

\* ------------------------------------------------------- H2_ALSH::bulkload
InitH2 ==
    /\ n_pts_ \in 1 .. MaxN
    /\ data_ \in [0 .. n_pts_ - 1 -> Pool]
    /\ ratio \in Ratios
    /\ pc = "sort"
    /\ order = << >>
    /\ i = 0
    /\ h2_alsh_data_ = << >>
    /\ blocks_ = << >>
    /\ query = << >>
    /\ top_k = 0
    /\ list = << >>
    /\ kip = MINREAL
    /\ bi = 0
    /\ last = [kind |-> "none", blk |-> 0, brk |-> 0, radSign |-> 1]
    /\ nullDeref = FALSE
    /\ SrpIdle
    /\ L2Idle

\* lines 54-68
SortOrder ==
    /\ UNCHANGED << srpvars, l2vars >>
    /\ pc = "sort"
    /\ order' \in Orders
    /\ pc' = "build"
    /\ UNCHANGED << n_pts_, data_, ratio, i, h2_alsh_data_, blocks_,
                    query, top_k, list, kip, bi, last, nullDeref >>

\* one iteration of the outer while loop (lines 71-111)
FormBlock ==
    /\ UNCHANGED << srpvars, l2vars >>
    /\ pc = "build"
    /\ i < n_pts_
    /\ Len(blocks_) < MaxBlocks
    /\ LET MSq == NormSq(data_[order[i]])
           n   == Absorb(i, 0, MSq)
           start == i
           block == [ n_pts_ |-> n,
                      MSq    |-> MSq,
                      index_ |-> BlockIndex(start, n),
                      lsh_   |-> IF NeedsIndex(n)
                                 THEN [built |-> TRUE, n |-> n,
                                       dim |-> Len(data_[0]) + 1,
                                       start |-> start]
                                 ELSE NULL ]
       IN /\ h2_alsh_data_' =
                 [k \in 0 .. start + n - 1 |->
                     IF k < start THEN h2_alsh_data_[k]
                     ELSE Lift(order[k], MSq)]
          /\ i' = start + n
          /\ blocks_' = Append(blocks_, block)
          /\ pc' = IF start + n < n_pts_ THEN "build" ELSE "ready"
    /\ UNCHANGED << n_pts_, data_, ratio, order,
                    query, top_k, list, kip, bi, last, nullDeref >>

\* --------------------------------------------- MaxK_List (pri_queue.h)
\* entries in descending key order, at most k of them; a new key goes
\* behind the entries that are not smaller
RECURSIVE InsertAt(_, _)
InsertAt(lst, e) ==
    IF Len(lst) = 0 THEN << e >>
    ELSE IF Head(lst).key < e.key THEN << e >> \o lst
    ELSE << Head(lst) >> \o InsertAt(Tail(lst), e)

Insert(lst, k, key, id) ==
    LET all == InsertAt(lst, [key |-> key, id |-> id])
    IN  IF Len(all) > k THEN SubSeq(all, 1, k) ELSE all

\* what insert returns: the k-th key once the list is full, else MINREAL
MinKey(lst, k) == IF Len(lst) >= k /\ k > 0 THEN lst[k].key ELSE MINREAL

\* calc_inner_product (util.h): the exact inner product
calc_inner_product(p, q) == Dot(p, q)

\* sqrt(aSq) * sqrt(bSq) <= k, for a signed k
NormProdLE(aSq, bSq, k) == k >= 0 /\ aSq * bSq <= k * k

\* ----------------------------------------------------------- H2_ALSH::kmip
\* the block test with the comparison turned round
BlockPruneFlipped(MSq, nqSq, kp) == ~ NormProdLE(MSq, nqSq, kp)

\* M * normq <= kip  (line 150)
BlockPrune(MSq, nqSq, kp) == NormProdLE(MSq, nqSq, kp)

\* norm_d_[id][0] * normq <= kip  (line 158)
ScanPrune(id, nqSq, kp) == NormProdLE(NormSq(data_[id]), nqSq, kp)

\* a linear-scan test that is off by one against the build's
UseLinearScanStrict(n) == n < N_THRESHOLD

\* n <= N_THRESHOLD  (line 152)
UseLinearScan(n) == n <= N_THRESHOLD

\* the linear scan of one block (lines 156-163), from member j on
RECURSIVE LinScan(_, _, _, _)
LinScan(blk, j, lst, kp) ==
    IF j >= blk.n_pts_ THEN [list |-> lst, kip |-> kp, brk |-> j]
    ELSE LET id == blk.index_[j]
         IN  IF ScanPrune(id, NormSq(query), kp)
             THEN [list |-> lst, kip |-> kp, brk |-> j]
             ELSE LET ip == calc_inner_product(data_[id], query)
                      l2 == Insert(lst, top_k, ip, id + 1)
                  IN  LinScan(blk, j + 1, l2, MinKey(l2, top_k))

\* the sign of 2 * (M * M - lambda * kip), lambda = M / normq  (lines 169-170)
\* M * M - lambda * kip = MSq - kip * sqrt(MSq / nqSq)
RadicandSign(MSq, nqSq, kp) ==
    IF kp <= 0 \/ MSq = 0
    THEN (IF MSq > 0 THEN 1 ELSE 0)
    ELSE \* both terms positive: compare MSq^2 * nqSq with kip^2 * MSq
         IF MSq * nqSq > kp * kp THEN 1
         ELSE IF MSq * nqSq = kp * kp THEN 0 ELSE -1

\* QALSH::knn (qalsh.h): some local ids of the block, each at most once
Cands(n) ==
    UNION { { c \in [1 .. m -> 0 .. n - 1] :
                \A a, b \in 1 .. m : a # b => c[a] # c[b] } : m \in 0 .. n }

\* the refinement of the candidates (lines 182-191)
RECURSIVE Refine(_, _, _, _)
Refine(blk, cd, lst, kp) ==
    IF Len(cd) = 0 THEN [list |-> lst, kip |-> kp]
    ELSE LET id == blk.index_[Head(cd)]
         IN  IF ~ NormProdLE(NormSq(data_[id]), NormSq(query), kp)
             THEN LET ip == calc_inner_product(data_[id], query)
                      l2 == Insert(lst, top_k, ip, id + 1)
                  IN  Refine(blk, Tail(cd), l2, MinKey(l2, top_k))
             ELSE Refine(blk, Tail(cd), lst, kp)

NoStep == [kind |-> "none", blk |-> 0, brk |-> 0, radSign |-> 1]

\* kmip is called on the built index (lines 137-140)
KmipStart ==
    /\ UNCHANGED << srpvars, l2vars >>
    /\ pc = "ready"
    /\ query' \in Queries
    /\ top_k' \in 1 .. MaxTopK
    /\ list' = << >>
    /\ kip' = MINREAL
    /\ bi' = 0
    /\ last' = NoStep
    /\ pc' = "query"
    /\ UNCHANGED << n_pts_, data_, ratio, order, i, h2_alsh_data_, blocks_,
                    nullDeref >>

\* one iteration of the block loop (lines 145-193)
KmipBlock ==
    /\ UNCHANGED << srpvars, l2vars >>
    /\ pc = "query"
    /\ bi < Len(blocks_)
    /\ LET blk  == blocks_[bi + 1]
           nqSq == NormSq(query)
       IN  IF BlockPrune(blk.MSq, nqSq, kip)
           THEN /\ last' = [NoStep EXCEPT !.kind = "stop", !.blk = bi]
                /\ pc' = "done"
                /\ UNCHANGED << list, kip, bi, nullDeref >>
           ELSE IF UseLinearScan(blk.n_pts_)
           THEN LET r == LinScan(blk, 0, list, kip)
                IN  /\ list' = r.list
                    /\ kip' = r.kip
                    /\ last' = [NoStep EXCEPT !.kind = "scan", !.blk = bi,
                                              !.brk = r.brk]
                    /\ bi' = bi + 1
                    /\ pc' = IF bi + 1 < Len(blocks_) THEN "query" ELSE "done"
                    /\ UNCHANGED nullDeref
           ELSE \E cd \in Cands(blk.n_pts_) :
                LET r == Refine(blk, cd, list, kip)
                IN  /\ nullDeref' = (nullDeref \/ blk.lsh_ = NULL)
                    /\ list' = r.list
                    /\ kip' = r.kip
                    /\ last' = [NoStep EXCEPT !.kind = "knn", !.blk = bi,
                                   !.radSign = RadicandSign(blk.MSq, nqSq, kip)]
                    /\ bi' = bi + 1
                    /\ pc' = IF bi + 1 < Len(blocks_) THEN "query" ELSE "done"
    /\ UNCHANGED << n_pts_, data_, ratio, order, i, h2_alsh_data_, blocks_,
                    query, top_k >>

\* return 0 (lines 194-196): the locals of the call are gone
KmipReturn ==
    /\ UNCHANGED << srpvars, l2vars >>
    /\ pc = "done"
    /\ pc' = "ready"
    /\ query' = << >>
    /\ top_k' = 0
    /\ list' = << >>
    /\ kip' = MINREAL
    /\ bi' = 0
    /\ last' = NoStep
    /\ UNCHANGED << n_pts_, data_, ratio, order, i, h2_alsh_data_, blocks_,
                    nullDeref >>

\* H2_ALSH's constructor has returned
Built == pc \in {"ready", "query", "done"}

NBlocks == Len(blocks_)

\* the row of h2_alsh_data_ (and position of order) where block b begins
RECURSIVE BlockStart(_)
BlockStart(b) == IF b <= 1 THEN 0 ELSE BlockStart(b - 1) + blocks_[b - 1].n_pts_

\* the ids of blocks 1..b, in build order
RECURSIVE IdsUpTo(_)
IdsUpTo(b) ==
    IF b = 0 THEN << >>
    ELSE IdsUpTo(b - 1) \o
         [j \in 1 .. blocks_[b].n_pts_ |-> blocks_[b].index_[j - 1]]

Member(b, j) == blocks_[b].index_[j]
MemberNormSq(b, j) == NormSq(data_[Member(b, j)])
IP(id) == Dot(data_[id], query)

NextH2 == SortOrder \/ FormBlock \/ KmipStart \/ KmipBlock \/ KmipReturn

SpecH2 == InitH2 /\ [][NextH2]_vars


\* ====================================================================
\*  Properties of H2_ALSH, checked under SpecH2
\* ====================================================================

\* C1: after bulkload the blocks partition the dataset: the index_ arrays
\* concatenated in build order hold every id of 0..n-1 exactly once, and
\* the blocks' n_pts_ add up to n.
BlocksPartition ==
    Built =>
        LET ids == IdsUpTo(NBlocks)
        IN  /\ Len(ids) = n_pts_
            /\ BlockStart(NBlocks + 1) = n_pts_
            /\ \A id \in 0 .. n_pts_ - 1 :
                   Cardinality({k \in 1 .. Len(ids) : ids[k] = id}) = 1

\* a finished build of three blocks or more, one of them with several members
BlocksPartitionWitness ==
    /\ Built
    /\ NBlocks >= 3
    /\ \E b \in 1 .. NBlocks : blocks_[b].n_pts_ >= 2

\* norm lies in [M * b, M], as IEEE comparisons decide it
InBlockRange(ndSq, MSq, r) ==
    /\ ~ BIsNaN(r)
    /\ ~ BIsInf(r)
    /\ ndSq * Abs(BDen(r)) >= MSq * Abs(BNum(r))
    /\ ndSq <= MSq

BlockNormsOrdered ==
    /\ \A b \in 1 .. NBlocks :
           blocks_[b].n_pts_ > 0 => blocks_[b].MSq = MemberNormSq(b, 0)
    /\ \A b \in 1 .. NBlocks - 1 : blocks_[b].MSq >= blocks_[b + 1].MSq
    /\ \A b \in 1 .. NBlocks : \A j, k \in 0 .. blocks_[b].n_pts_ - 1 :
           j < k => MemberNormSq(b, j) >= MemberNormSq(b, k)

\* C2: after bulkload, for ratios with c0^4 > c, block maxima are
\* non-increasing in build order, M is the norm of the block's first member,
\* members are stored in non-increasing norm order, and every member's norm
\* lies in [M * b, M].
BlockNormRange ==
    (Built /\ BDen(ratio) > 0) =>
        /\ BlockNormsOrdered
        /\ \A b \in 1 .. NBlocks : \A j \in 0 .. blocks_[b].n_pts_ - 1 :
               InBlockRange(MemberNormSq(b, j), blocks_[b].MSq, ratio)

\* the same for nn_ratio_ >= 1, mip_ratio_ <= 1, the ratios that give a b_ in
\* [0, 1]
BlockNormRangeUnitRatios ==
    (Built /\ BDen(ratio) > 0 /\ BNum(ratio) >= 0 /\ BNum(ratio) <= BDen(ratio))
        => /\ BlockNormsOrdered
           /\ \A b \in 1 .. NBlocks : \A j \in 0 .. blocks_[b].n_pts_ - 1 :
                  InBlockRange(MemberNormSq(b, j), blocks_[b].MSq, ratio)

\* C4: every lifted row holds the source point's coordinates unchanged, its
\* appended coordinate squared is M^2 - norm^2 and is not negative, and the
\* squared norm of the lifted row is M^2.
LiftEqualNorm ==
    \A b \in 1 .. NBlocks : \A j \in 0 .. blocks_[b].n_pts_ - 1 :
        LET row == h2_alsh_data_[BlockStart(b) + j]
            id  == Member(b, j)
        IN  /\ row.coords = data_[id]
            /\ row.extraSq = blocks_[b].MSq - NormSq(data_[id])
            /\ row.extraSq >= 0
            /\ NormSq(row.coords) + row.extraSq = blocks_[b].MSq

\* a block holding members of different norms: one row is lifted by a
\* positive coordinate
LiftEqualNormWitness ==
    /\ Built
    /\ \E b \in 1 .. NBlocks : \E j \in 0 .. blocks_[b].n_pts_ - 1 :
           /\ h2_alsh_data_[BlockStart(b) + j].extraSq > 0
           /\ NormSq(data_[Member(b, j)]) > 0

\* C8: for ratios with c0^4 > c every iteration of the block-forming loop
\* absorbs a point: each block has between 1 and MAX_BLOCK_NUM members and
\* there are at most n blocks.
EveryBlockAbsorbs ==
    BDen(ratio) > 0 =>
        /\ \A b \in 1 .. NBlocks :
               blocks_[b].n_pts_ >= 1 /\ blocks_[b].n_pts_ <= MAX_BLOCK_NUM
        /\ NBlocks <= n_pts_

\* the same for the ratios that give a b_ of at most 1 or NaN
EveryBlockAbsorbsSmallB ==
    (BDen(ratio) > 0 /\ BNum(ratio) <= BDen(ratio)) =>
        /\ \A b \in 1 .. NBlocks :
               blocks_[b].n_pts_ >= 1 /\ blocks_[b].n_pts_ <= MAX_BLOCK_NUM
        /\ NBlocks <= n_pts_

\* the points kmip has passed over when it leaves block blk at member j
SkippedFrom(blk, j) ==
    { Member(blk + 1, k) : k \in j .. blocks_[blk + 1].n_pts_ - 1 }
    \cup UNION { { Member(b, k) : k \in 0 .. blocks_[b].n_pts_ - 1 } :
                 b \in blk + 2 .. NBlocks }

AllLinear == \A b \in 1 .. NBlocks : blocks_[b].n_pts_ <= N_THRESHOLD

ListIds == { list[k].id - 1 : k \in 1 .. Len(list) }

\* the list holds the min(top_k, n) largest inner products of the dataset
ListIsExactTopK ==
    /\ Len(list) = (IF top_k < n_pts_ THEN top_k ELSE n_pts_)
    /\ Cardinality(ListIds) = Len(list)
    /\ ListIds \subseteq 0 .. n_pts_ - 1
    /\ \A k \in 1 .. Len(list) : list[k].key = IP(list[k].id - 1)
    /\ \A k \in 1 .. Len(list) - 1 : list[k].key >= list[k + 1].key
    /\ \A id \in (0 .. n_pts_ - 1) \ ListIds :
           \A k \in 1 .. Len(list) : IP(id) <= list[k].key

\* C3: pruning is sound.  When kmip leaves the block loop, or leaves a
\* linear-scan block early, every point of that block not yet scanned and
\* every point of the later blocks has an inner product <= kip; and when
\* every block is a linear-scan block the list ends with the
\* min(top_k, n) largest inner products of the dataset.
PruningSound ==
    /\ last.kind = "stop" =>
           \A id \in SkippedFrom(last.blk, 0) : IP(id) <= kip
    /\ (last.kind = "scan" /\ last.brk < blocks_[last.blk + 1].n_pts_) =>
           \A id \in SkippedFrom(last.blk, last.brk) : IP(id) <= kip
    /\ (pc = "done" /\ AllLinear) => ListIsExactTopK

\* a linear-scan block left early after one of its members was scanned,
\* with a point of positive inner product passed over
PruningSoundWitness ==
    /\ last.kind = "scan"
    /\ last.brk > 0
    /\ last.brk < blocks_[last.blk + 1].n_pts_
    /\ AllLinear
    /\ \E id \in SkippedFrom(last.blk, last.brk) : IP(id) > 0

\* C9: build and query agree on the strategy of a block: a block has a QALSH
\* exactly when it has more than N_THRESHOLD members, built over its own
\* n rows of h2_alsh_data_ in the order of index_; kmip calls knn only on a
\* block that has one and scans the others.
StrategyAgrees ==
    /\ \A b \in 1 .. NBlocks :
           /\ blocks_[b].lsh_.built <=> blocks_[b].n_pts_ > N_THRESHOLD
           /\ blocks_[b].lsh_.built =>
                  /\ blocks_[b].lsh_.n = blocks_[b].n_pts_
                  /\ blocks_[b].lsh_.dim = Len(data_[0]) + 1
                  /\ blocks_[b].lsh_.start = BlockStart(b)
                  /\ \A j \in 0 .. blocks_[b].n_pts_ - 1 :
                         h2_alsh_data_[blocks_[b].lsh_.start + j].coords
                             = data_[Member(b, j)]
    /\ ~ nullDeref
    /\ last.kind = "knn"  => blocks_[last.blk + 1].lsh_.built
    /\ last.kind = "scan" => ~ blocks_[last.blk + 1].lsh_.built

\* knn was called on a block that is not the first, after a scanned block
StrategyAgreesWitness ==
    /\ last.kind = "knn"
    /\ last.blk > 0
    /\ \E b \in 1 .. NBlocks : ~ blocks_[b].lsh_.built

\* C10: whenever kmip queries a delegate block, 2 * (M^2 - lambda * kip) is
\* strictly positive.
RadicandPositive == last.kind = "knn" => last.radSign = 1

\* the same for blocks of positive maximum norm, and never negative
RadicandPositiveForPositiveM ==
    last.kind = "knn" =>
        /\ last.radSign >= 0
        /\ blocks_[last.blk + 1].MSq > 0 => last.radSign = 1

\* ====================================================================
\*  SRP_LSH (src/srp_lsh.cc)
\* ====================================================================
\* A uint64_t is carried as its four 16-bit slices, w[s] = (x >> 16 s) &
\* 0xffff, the slices table_lookup reads.  The sign of a projection is an
\* input: proj_ is random.

\* K_, the number of sign bits
Ks == { 1, 63, 64, 65, 70, 130 }

\* sign patterns of a point: bit j is set when j >= from and bit 15 - j % 16
\* of v is set
SignPatterns ==
    { [v |-> 0,     from |-> 0],       \* no bit
      [v |-> 65535, from |-> 0],       \* every bit
      [v |-> 43690, from |-> 0],       \* every other bit
      [v |-> 65535, from |-> 63],      \* bits 63, 64, ...
      [v |-> 4660,  from |-> 16] }     \* 0x1234 in every slice but the first

\* the masks of bit_count, cut to their 30 low bits (its arguments are the
\* 16-bit table indices)
MASK_3333 == 460175067    \* 033333333333
MASK_1111 == 153391689    \* 011111111111
MASK_0707 == 119304647    \* 030707070707

RECURSIVE BitAnd(_, _)
BitAnd(a, b) ==
    IF a = 0 \/ b = 0 THEN 0
    ELSE (a % 2) * (b % 2) + 2 * BitAnd(a \div 2, b \div 2)

RECURSIVE BitXor(_, _)
BitXor(a, b) ==
    IF a = 0 THEN b
    ELSE IF b = 0 THEN a
    ELSE ((a + b) % 2) + 2 * BitXor(a \div 2, b \div 2)

\* bit b of x
BitOf(x, b) == (x \div (2 ^ b)) % 2

\* lines 76-81
bit_count(x) ==
    LET num == x - BitAnd(x \div 2, MASK_3333) - BitAnd(x \div 4, MASK_1111)
    IN  BitAnd(num + (num \div 8), MASK_0707) % 63

\* int size = 1 << 16  (line 40)
TABLE_SIZE == 65536

\* iterations of the table loop taken in one step
TableStep == 16

\* table16_[i], as the loop of lines 42-44 leaves it
table16_(x) == bit_count(x)

\* lines 162-167
table_lookup(w) == table16_(w[0]) + table16_(w[1]) + table16_(w[2]) + table16_(w[3])

\* m_ = (int) ceil(K / 64.0f)  (line 23)
WordCount(K) == (K + 63) \div 64

\* a size that forgets the case K_ % 64 = 0
WordSizeNoFullWord(w, K) == IF w = WordCount(K) - 1 THEN K % 64 ELSE 64

\* size of word w, counted from 0  (line 99)
WordSize(w, K) ==
    IF w = WordCount(K) - 1 /\ K % 64 # 0 THEN K % 64 ELSE 64

\* calc_hash_code(j, point) for a point of sign pattern p  (lines 85-90)
calc_hash_code(j, p) == j >= p.from /\ BitOf(p.v, 15 - (j % 16)) = 1

\* bit pos of the word that holds sign bits shift .. shift + size - 1:
\* val |= 1 << (63 - j) for the j < size with hash_code[j + shift]
RECURSIVE SliceOf(_, _, _, _, _)
SliceOf(p, shift, size, s, b) ==
    IF b < 0 THEN 0
    ELSE LET j == 63 - (16 * s + b)
         IN  (IF j < size /\ calc_hash_code(j + shift, p) THEN 2 ^ b ELSE 0)
             + SliceOf(p, shift, size, s, b - 1)

\* shift += size, from 0  (lines 97 and 106)
RECURSIVE ShiftOf(_, _)
ShiftOf(w, K) == IF w = 0 THEN 0 ELSE ShiftOf(w - 1, K) + WordSize(w - 1, K)

\* lines 93-109
compress_hash_code(p, K) ==
    [w \in 0 .. WordCount(K) - 1 |->
        [s \in 0 .. 3 |-> SliceOf(p, ShiftOf(w, K), WordSize(w, K), s, 15)]]

\* the signature of every sign pattern, computed once per K
hash_key_of == [K \in Ks |-> [p \in SignPatterns |-> compress_hash_code(p, K)]]

WordXor(a, b) == [s \in 0 .. 3 |-> BitXor(a[s], b[s])]

\* the inner loop of kmc (lines 142-145)
RECURSIVE MatchOf(_, _, _)
MatchOf(hk, hq, w) ==
    IF w < 0 THEN 0
    ELSE table_lookup(WordXor(hk[w], hq[w])) + MatchOf(hk, hq, w - 1)

\* the match of every pair of signatures, computed once per K
match_of ==
    [K \in Ks |-> [p \in SignPatterns |-> [q \in SignPatterns |->
        MatchOf(hash_key_of[K][p], hash_key_of[K][q], WordCount(K) - 1)]]]

\* a score that ranks by mismatches
ScoreAsMismatch(mt, K) == mt

\* (float) (total_bits - match)  (lines 140 and 146)
ScoreOf(mt, K) == 64 * WordCount(K) - mt

\* CANDIDATES + top_k - 1  (line 139)
Capacity(k) == CANDIDATES + k - 1

\* the scan of kmc (lines 141-147), from point p on
RECURSIVE ScoreAll(_, _, _, _)
ScoreAll(p, lst, q, k) ==
    IF p >= sn THEN lst
    ELSE ScoreAll(p + 1,
                  Insert(lst, Capacity(k),
                         ScoreOf(match_of[K_][signs[p]][q], K_), p),
                  q, k)

H2Idle ==
    /\ n_pts_ = 0
    /\ data_ = << >>
    /\ ratio = [c0n |-> 1, c0d |-> 1, cn |-> 1, cd |-> 1]
    /\ pc = "none"
    /\ order = << >>
    /\ i = 0
    /\ h2_alsh_data_ = << >>
    /\ blocks_ = << >>
    /\ query = << >>
    /\ top_k = 0
    /\ list = << >>
    /\ kip = MINREAL
    /\ bi = 0
    /\ last = NoStep
    /\ nullDeref = FALSE

\* the constructor is entered; its arguments are drawn where it first
\* reads them
InitSRP ==
    /\ spc = "table"
    /\ ti = 0
    /\ tlast = << >>
    /\ sn = 0
    /\ K_ = 0
    /\ signs = << >>
    /\ hash_key_ = << >>
    /\ signq = << >>
    /\ hash_key_q = << >>
    /\ stop_k = 0
    /\ match = << >>
    /\ scand = << >>
    /\ H2Idle
    /\ L2Idle

\* TableStep iterations of the table loop of the constructor (lines 42-44);
\* tlast holds the entries they wrote
FillTable ==
    /\ UNCHANGED << h2vars, l2vars >>
    /\ spc = "table"
    /\ ti < TABLE_SIZE
    /\ LET to == IF ti + TableStep < TABLE_SIZE THEN ti + TableStep
                 ELSE TABLE_SIZE
       IN  /\ tlast' = [x \in ti .. to - 1 |-> bit_count(x)]
           /\ ti' = to
    /\ UNCHANGED << spc, sn, K_, signs, hash_key_, signq, hash_key_q, stop_k,
                    match, scand >>

\* the rest of SRP_LSH::SRP_LSH (lines 20-24 and 49-57)
SrpConstruct ==
    /\ UNCHANGED << h2vars, l2vars >>
    /\ spc = "table"
    /\ ti = TABLE_SIZE
    /\ \E n \in 1 .. MaxPts, K \in Ks :
         \E sg \in [0 .. n - 1 -> SignPatterns] :
            /\ sn' = n
            /\ K_' = K
            /\ signs' = sg
            /\ hash_key_' = [p \in 0 .. n - 1 |-> hash_key_of[K][sg[p]]]
    /\ spc' = "ready"
    /\ UNCHANGED << ti, tlast, signq, hash_key_q, stop_k, match, scand >>

\* SRP_LSH::kmc (lines 122-159)
Kmc ==
    /\ UNCHANGED << h2vars, l2vars >>
    /\ spc = "ready"
    /\ \E q \in SignPatterns, k \in 1 .. MaxTopK :
        LET lst == ScoreAll(0, << >>, q, k)
        IN  /\ signq' = q
            /\ hash_key_q' = hash_key_of[K_][q]
            /\ stop_k' = k
            /\ match' = [p \in 0 .. sn - 1 |-> match_of[K_][signs[p]][q]]
            /\ scand' = [c \in 1 .. Len(lst) |-> lst[c].id]
    /\ spc' = "returned"
    /\ UNCHANGED << ti, tlast, sn, K_, signs, hash_key_ >>

\* the caller is done with cand
KmcReturn ==
    /\ UNCHANGED << h2vars, l2vars >>
    /\ spc = "returned"
    /\ spc' = "ready"
    /\ signq' = << >>
    /\ hash_key_q' = << >>
    /\ stop_k' = 0
    /\ match' = << >>
    /\ scand' = << >>
    /\ UNCHANGED << ti, tlast, sn, K_, signs, hash_key_ >>

NextSRP == FillTable \/ SrpConstruct \/ Kmc \/ KmcReturn

SpecSRP == InitSRP /\ [][NextSRP]_vars

\* the sign bits of 0 .. K - 1 in which two patterns differ
HammingOf ==
    [K \in Ks |-> [p \in SignPatterns |-> [q \in SignPatterns |->
        Cardinality({ j \in 0 .. K - 1 :
                        calc_hash_code(j, p) # calc_hash_code(j, q) })]]]

Hamming(p, q) == HammingOf[K_][p][q]

\* the number of 1 bits of x, bit by bit
RECURSIVE PopCount(_)
PopCount(x) == IF x = 0 THEN 0 ELSE (x % 2) + PopCount(x \div 2)

\* sign bit j sits in word j div 64 at bit 63 - j mod 64, and the other bits
\* of the last word are 0
PackedBits(K, p) ==
    [w \in 0 .. (K + 63) \div 64 - 1 |-> [s \in 0 .. 3 |->
        LET Set(b) == LET j == 64 * w + 63 - (16 * s + b)
                      IN  j < K /\ calc_hash_code(j, p)
            F[b \in 0 .. 16] ==
                IF b = 16 THEN 0 ELSE (IF Set(b) THEN 2 ^ b ELSE 0) + F[b + 1]
        IN  F[0]]]

PackedOf == [K \in Ks |-> [p \in SignPatterns |-> PackedBits(K, p)]]

PackedAs(hk, p) == hk = PackedOf[K_][p]

\* every entry the table loop wrote last is the number of 1 bits of its index
TableIsPopCount == \A x \in DOMAIN tlast : tlast[x] = PopCount(x)

CandSet == { scand[c] : c \in 1 .. Len(scand) }

\* C5: kmc returns min(n, CANDIDATES + top_k - 1) candidates, distinct ids
\* of 0..n-1, and no point left out has fewer mismatched sign bits than a
\* point that is returned; each of the n points has been scored.
KmcBestMatches ==
    spc = "returned" =>
        /\ DOMAIN match = 0 .. sn - 1
        /\ Len(scand) = (IF sn < CANDIDATES + stop_k - 1
                         THEN sn ELSE CANDIDATES + stop_k - 1)
        /\ Cardinality(CandSet) = Len(scand)
        /\ CandSet \subseteq 0 .. sn - 1
        /\ \A out \in (0 .. sn - 1) \ CandSet : \A in \in CandSet :
               Hamming(signs[out], signq) >= Hamming(signs[in], signq)

\* kmc left out a point that matches worse than every point it returned
KmcBestMatchesWitness ==
    /\ spc = "returned"
    /\ \E out \in (0 .. sn - 1) \ CandSet : \A in \in CandSet :
           Hamming(signs[out], signq) > Hamming(signs[in], signq)
    /\ K_ > 64

\* C6: for every K the mismatch total of kmc is the number of sign bits of
\* 0..K-1 that differ; sign bit j is stored in word j div 64 at bit
\* 63 - j mod 64; the unused bits of the last word are 0; a signature
\* compared with itself gives 0.
MismatchIsHamming ==
    /\ TableIsPopCount
    /\ spc \in {"ready", "returned"} =>
           \A p \in 0 .. sn - 1 :
               /\ PackedAs(hash_key_[p], signs[p])
               /\ match_of[K_][signs[p]][signs[p]] = 0
    /\ spc = "returned" =>
           /\ PackedAs(hash_key_q, signq)
           /\ \A p \in 0 .. sn - 1 : match[p] = Hamming(signs[p], signq)

\* a point that differs from the query in its last sign bit, which is the
\* only bit of the last word, and in bits of the word before
MismatchIsHammingWitness ==
    /\ spc = "returned"
    /\ K_ = 65
    /\ \E p \in 0 .. sn - 1 :
           /\ calc_hash_code(64, signs[p]) # calc_hash_code(64, signq)
           /\ match[p] > 1

\* ====================================================================
\*  L2_ALSH::kmip (src/l2_alsh.cc)
\* ====================================================================
\* L2_ALSH keeps n_pts_, data_ and norm_d_ as H2_ALSH does; its transformed
\* copy of the data is read by QALSH alone, whose answer is an input here.

L2Queries == { <<1, 0>>, <<1, 1>> }

\* lsh_->knn(top_k, MAXREAL, l2_alsh_query, cand)  (line 123): some ids of
\* the dataset, each at most once, in some order
L2Cands ==
    UNION { { c \in [1 .. m -> 0 .. n_pts_ - 1] :
                \A a, b \in 1 .. m : a # b => c[a] # c[b] } : m \in 0 .. n_pts_ }

\* the refinement loop (lines 129-136), from candidate j on
RECURSIVE L2Refine(_, _, _, _, _, _)
L2Refine(cd, j, q, k, lst, kp) ==
    IF j > Len(cd) THEN [list |-> lst, kip |-> kp, brk |-> Len(cd)]
    ELSE LET id == cd[j]
         IN  IF NormProdLE(NormSq(data_[id]), NormSq(q), kp)
             THEN [list |-> lst, kip |-> kp, brk |-> j - 1]
             ELSE LET ip == calc_inner_product(data_[id], q)
                      l2 == Insert(lst, k, ip, id + 1)
                  IN  L2Refine(cd, j + 1, q, k, l2, MinKey(l2, k))

InitL2 ==
    /\ n_pts_ \in 1 .. MaxN
    /\ data_ \in [0 .. n_pts_ - 1 -> Pool]
    /\ ratio = [c0n |-> 2, c0d |-> 1, cn |-> 1, cd |-> 2]
    /\ pc = "l2ready"
    /\ order = << >>
    /\ i = 0
    /\ h2_alsh_data_ = << >>
    /\ blocks_ = << >>
    /\ query = << >>
    /\ top_k = 0
    /\ list = << >>
    /\ kip = MINREAL
    /\ bi = 0
    /\ last = NoStep
    /\ nullDeref = FALSE
    /\ SrpIdle
    /\ L2Idle

\* L2_ALSH::kmip (lines 101-140)
L2Kmip ==
    /\ pc = "l2ready"
    /\ \E q \in L2Queries, k \in 1 .. MaxTopK, cd \in L2Cands :
        LET r == L2Refine(cd, 1, q, k, << >>, MINREAL)
        IN  /\ query' = q
            /\ top_k' = k
            /\ cand' = cd
            /\ list' = r.list
            /\ kip' = r.kip
            /\ brk' = r.brk
    /\ pc' = "l2done"
    /\ UNCHANGED << n_pts_, data_, ratio, order, i, h2_alsh_data_, blocks_,
                    bi, last, nullDeref, srpvars >>

\* the caller is done with the list
L2Return ==
    /\ pc = "l2done"
    /\ pc' = "l2ready"
    /\ query' = << >>
    /\ top_k' = 0
    /\ cand' = << >>
    /\ list' = << >>
    /\ kip' = MINREAL
    /\ brk' = 0
    /\ UNCHANGED << n_pts_, data_, ratio, order, i, h2_alsh_data_, blocks_,
                    bi, last, nullDeref, srpvars >>

NextL2 == L2Kmip \/ L2Return

SpecL2 == InitL2 /\ [][NextL2]_vars

CandIds == { cand[c] : c \in 1 .. Len(cand) }

\* the list holds the min(top_k, |cand|) largest inner products of the
\* candidates
ListIsBestOfCands ==
    /\ Len(list) = (IF top_k < Len(cand) THEN top_k ELSE Len(cand))
    /\ ListIds \subseteq CandIds
    /\ \A k \in 1 .. Len(list) : list[k].key = IP(list[k].id - 1)
    /\ \A id \in CandIds \ ListIds :
           \A k \in 1 .. Len(list) : IP(id) <= list[k].key

\* C7: whatever the order of the candidates knn returns, after the
\* refinement loop the list holds the min(top_k, number of candidates)
\* largest inner products among them: no candidate skipped by the early
\* exit has an inner product above the final kip.
RefineKeepsBest ==
    pc = "l2done" =>
        /\ ListIsBestOfCands
        /\ \A c \in brk + 1 .. Len(cand) : IP(cand[c]) <= kip

\* the same for candidates that arrive in non-increasing norm order
RefineKeepsBestSorted ==
    (pc = "l2done" /\ \A a, b \in 1 .. Len(cand) :
                          a < b => NormSq(data_[cand[a]]) >= NormSq(data_[cand[b]]))
        => /\ ListIsBestOfCands
           /\ \A c \in brk + 1 .. Len(cand) : IP(cand[c]) <= kip

=============================================================================
